---- MODULE Spec2Model ----
(***************************************************************************)
(* Model of transfers_events, the transfer-notification loop of the        *)
(* safenode RPC client (sn_node/src/bin/safenode_rpc_client.rs).           *)
(*                                                                         *)
(* The session parses the holder key, builds a client and a wallet,        *)
(* registers the notification filter, opens the node-events stream and     *)
(* then loops: next item, decode, verify each transfer, deposit the        *)
(* accumulated CashNotes, write one file per CashNote, report the balance. *)
(* One action models one step of that function; the library calls it       *)
(* makes (SecretKey::from_hex, NodeEvent::from_bytes,                      *)
(* Client::verify_and_unpack_transfer, LocalWallet::deposit,               *)
(* SpendAddress::from_unique_pubkey, CashNote::to_hex) are operators.      *)
(***************************************************************************)
EXTENDS Integers, Sequences, FiniteSets, TLC

\* Bounds of the model.
MaxItems == 3
MaxTransfers == 2

(***************************************************************************)
(* Data                                                                    *)
(***************************************************************************)

\* The `sk` argument: two well-formed hex keys and one malformed string.
SkArgs == {"skA", "skB", "xyz"}

\* The `log_cash_notes` argument: Option<PathBuf>, modelled as a set of at
\* most one path.
LogArgs == {{}, {"notes_dir"}}

\* SecretKey::from_hex
FromHex(s) ==
    IF s \in {"skA", "skB"}
    THEN [ok |-> TRUE, sk |-> s]
    ELSE [ok |-> FALSE, sk |-> "none"]

\* SecretKey::public_key
PublicKey(s) == IF s = "skA" THEN "pkA" ELSE IF s = "skB" THEN "pkB" ELSE "none"

\* CashNote::value of the note with a given unique pubkey.
Value(id) ==
    CASE id = "n1" -> 5
      [] id = "n2" -> 3
      [] id = "n3" -> 4
      [] id = "n4" -> 2
      [] OTHER -> 1

\* A CashNote: its unique pubkey and its value.
CashNote(id) == [unique_pubkey |-> id, value |-> Value(id)]

\* sn_transfers::Transfer: Encrypted(ciphertext) or NetworkRoyalties(..).
\* An Encrypted transfer is described by the key it was encrypted to, the
\* state of its ciphertext and the notes it bundles.
Transfers ==
    { [kind |-> "Encrypted", to |-> "pkA", cipher |-> "ok", notes |-> <<"n1">>],
      [kind |-> "Encrypted", to |-> "pkA", cipher |-> "ok", notes |-> <<"n2", "n3">>],
      [kind |-> "Encrypted", to |-> "pkB", cipher |-> "ok", notes |-> <<"n4">>],
      [kind |-> "Encrypted", to |-> "pkA", cipher |-> "invalid", notes |-> <<"n1">>],
      [kind |-> "Encrypted", to |-> "pkB", cipher |-> "malformed", notes |-> <<"n4">>],
      [kind |-> "NetworkRoyalties", to |-> "none", cipher |-> "plain", notes |-> <<"n5">>] }

\* Sequences over S of length at most n.
RECURSIVE SeqUpTo(_, _)
SeqUpTo(S, n) ==
    IF n = 0 THEN {<<>>}
    ELSE LET shorter == SeqUpTo(S, n - 1)
         IN  shorter \cup {Append(s, x) : s \in {t \in shorter : Len(t) = n - 1}, x \in S}

\* NodeEvent: TransferNotif { key, transfers } or any other variant.
TransferNotifs ==
    {[kind |-> "TransferNotif", transfers |-> ts] : ts \in SeqUpTo(Transfers, MaxTransfers)}

OtherEvent == [kind |-> "Other", transfers |-> <<>>]

NodeEvents == TransferNotifs \cup {OtherEvent}

\* The bytes of a stream item: the encoding of an event, or bytes that are not
\* the encoding of any event.
ToBytes(ev) == <<"node_event", ev>>

CorruptBytes == <<"corrupt", OtherEvent>>

Payloads == {ToBytes(ev) : ev \in NodeEvents} \cup {CorruptBytes}

\* NodeEvent::from_bytes
FromBytes(b) ==
    IF b[1] = "node_event"
    THEN [ok |-> TRUE, event |-> b[2]]
    ELSE [ok |-> FALSE, event |-> OtherEvent]

\* CashNotes listed by their unique pubkeys.
RECURSIVE CashNotesOf(_)
CashNotesOf(ids) ==
    IF ids = <<>> THEN <<>> ELSE <<CashNote(Head(ids))>> \o CashNotesOf(Tail(ids))

\* Client::verify_and_unpack_transfer(&transfer, &wallet): the CashNotes of a
\* transfer encrypted to the wallet's key, an error otherwise.
VerifyAndUnpackTransfer(transfer, w) ==
    IF transfer.cipher = "malformed"
    THEN [ok |-> FALSE, err |-> "unexpected", cns |-> <<>>]
    ELSE IF transfer.cipher # "ok"
    THEN [ok |-> FALSE, err |-> "invalid", cns |-> <<>>]
    ELSE IF transfer.to # w.pk
    THEN [ok |-> FALSE, err |-> "not_for_us", cns |-> <<>>]
    ELSE [ok |-> TRUE, err |-> "none", cns |-> CashNotesOf(transfer.notes)]

\* LocalWallet::deposit: each CashNote not yet held is added with its value.
RECURSIVE Deposit(_, _)
Deposit(w, cns) ==
    IF cns = <<>> THEN w
    ELSE LET cn == Head(cns)
             w1 == IF cn.unique_pubkey \in w.ids
                   THEN w
                   ELSE [w EXCEPT !.ids = @ \cup {cn.unique_pubkey},
                                  !.balance = @ + cn.value]
         IN  Deposit(w1, Tail(cns))

\* LocalWallet::balance
Balance(w) == w.balance

\* SpendAddress::from_unique_pubkey(..).xorname(): the content address of a
\* unique pubkey.
XorName(id) == <<"xorname", id>>

\* hex::encode
HexEncode(x) == <<"hex", x>>

\* format!("{}.cash_note", hex::encode(unique_pubkey_name))
FileName(cn) == <<HexEncode(XorName(cn.unique_pubkey)), ".cash_note">>

\* path.join(unique_pubkey_file_name)
Join(path, name) == <<path, name>>

\* CashNote::to_hex
ToHex(cn) == HexEncode(cn)

\* What a failed fs::write may leave at the path: a file cut short, which is the
\* encoding of no CashNote.
Truncated == HexEncode([unique_pubkey |-> "cut_short", value |-> 0])

\* The wallet before LocalWallet::load_from_main_key.
NoWallet == [loaded |-> FALSE, pk |-> "none", balance |-> 0, ids |-> {}]

\* The payload variable while no stream item is being processed.
NoItem == <<"none", OtherEvent>>

(***************************************************************************)
(* State                                                                   *)
(***************************************************************************)
VARIABLES
    sk,              \* the `sk` argument
    log_cash_notes,  \* the `log_cash_notes` argument
    pc,              \* the statement transfers_events is at
    ret,             \* "running", "Ok", or the error transfers_events returned
    wallet,          \* the LocalWallet
    filters,         \* keys registered at the node by transfer_notifs_filter
    stream_open,     \* whether node_events has returned the stream
    dirs,            \* directories created on disk
    files,           \* cash-note files on disk: path -> content
    consumed,        \* number of stream items received
    e,               \* the stream item being processed
    t_idx,           \* position of `for transfer in transfers`
    cash_notes,      \* the `cash_notes` vector of the current notification
    cn_idx,          \* position of `for cn in cash_notes`
    deposit_calls,   \* history: the deposit calls of the current notification
    failed_call,     \* history: the call that returned an error, "none" if none did
    last_outcome,    \* history: how the iteration just ended, "none" inside an iteration
    persisted,       \* history: unique pubkeys whose fs::write returned Ok
    redeliver,       \* the stream: the item it will deliver once more, if any
    redelivered      \* history: the item being processed is a second delivery

vars == <<sk, log_cash_notes, pc, ret, wallet, filters, stream_open, dirs, files,
          consumed, e, t_idx, cash_notes, cn_idx, deposit_calls, failed_call, last_outcome,
          persisted, redeliver, redelivered>>

config == <<sk, log_cash_notes>>
disk == <<dirs, files, persisted>>
batch == <<e, t_idx, cash_notes, cn_idx, deposit_calls, redelivered>>

\* The transfers of the notification being processed.
transfers == FromBytes(e).event.transfers

Init ==
    /\ sk \in SkArgs
    /\ log_cash_notes \in LogArgs
    /\ pc = "parse_sk"
    /\ ret = "running"
    /\ wallet = NoWallet
    /\ filters = {}
    /\ stream_open = FALSE
    /\ dirs = {}
    /\ files = <<>>
    /\ consumed = 0
    /\ e = NoItem
    /\ t_idx = 1
    /\ cash_notes = <<>>
    /\ cn_idx = 1
    /\ deposit_calls = <<>>
    /\ failed_call = "none"
    /\ last_outcome = "none"
    /\ persisted = {}
    /\ redeliver = {}
    /\ redelivered = FALSE

\* The variables of the loop body, as they are outside an iteration.
NoIteration ==
    /\ e' = NoItem
    /\ t_idx' = 1
    /\ cash_notes' = <<>>
    /\ cn_idx' = 1
    /\ deposit_calls' = <<>>
    /\ redelivered' = FALSE

\* `return Err(..)` and every `?` that fails: the function returns the error and
\* its loop variables are dropped.
Fail(what) ==
    /\ pc' = "done"
    /\ ret' = what
    /\ NoIteration

(***************************************************************************)
(* Start-up: lines 245-273                                                 *)
(***************************************************************************)

\* SecretKey::from_hex(&sk) is Ok
ParseSkOk ==
    /\ pc = "parse_sk"
    /\ FromHex(sk).ok
    /\ pc' = "client_new"
    /\ UNCHANGED <<config, last_outcome, failed_call, ret, wallet, filters, stream_open,
                   disk, consumed, batch, redeliver>>

\* Fault variant of ParseSkErr: a key that does not parse is passed on and the
\* session starts with it.
ParseSkErr_Ignore ==
    /\ pc = "parse_sk"
    /\ ~FromHex(sk).ok
    /\ pc' = "client_new"
    /\ UNCHANGED <<config, last_outcome, failed_call, ret, wallet, filters, stream_open,
                   disk, consumed, batch, redeliver>>

\* SecretKey::from_hex(&sk) is Err: "Failed to parse hex-encoded SK"
ParseSkErr ==
    /\ pc = "parse_sk"
    /\ ~FromHex(sk).ok
    /\ Fail("ErrParseSk")
    /\ failed_call' = "from_hex"
    /\ UNCHANGED <<config, last_outcome, wallet, filters, stream_open, disk, consumed,
                   redeliver>>

\* Client::new(..).await?
ClientNewOk ==
    /\ pc = "client_new"
    /\ pc' = "wallet_load"
    /\ UNCHANGED <<config, last_outcome, failed_call, ret, wallet, filters, stream_open,
                   disk, consumed, batch, redeliver>>

ClientNewErr ==
    /\ pc = "client_new"
    /\ Fail("ErrClient")
    /\ failed_call' = "client_new"
    /\ UNCHANGED <<config, last_outcome, wallet, filters, stream_open, disk, consumed,
                   redeliver>>

\* TempDir::new()? and LocalWallet::load_from_main_key(..)?
WalletLoadOk ==
    /\ pc = "wallet_load"
    /\ wallet' = [loaded |-> TRUE, pk |-> PublicKey(FromHex(sk).sk), balance |-> 0, ids |-> {}]
    /\ pc' = "connect"
    /\ UNCHANGED <<config, last_outcome, failed_call, ret, filters, stream_open, disk,
                   consumed, batch, redeliver>>

WalletLoadErr ==
    /\ pc = "wallet_load"
    /\ Fail("ErrWallet")
    /\ failed_call' = "wallet_load"
    /\ UNCHANGED <<config, last_outcome, wallet, filters, stream_open, disk, consumed,
                   redeliver>>

\* SafeNodeClient::connect(endpoint).await?
ConnectOk ==
    /\ pc = "connect"
    /\ pc' = "filter"
    /\ UNCHANGED <<config, last_outcome, failed_call, ret, wallet, filters, stream_open,
                   disk, consumed, batch, redeliver>>

ConnectErr ==
    /\ pc = "connect"
    /\ Fail("ErrConnect")
    /\ failed_call' = "connect"
    /\ UNCHANGED <<config, last_outcome, wallet, filters, stream_open, disk, consumed,
                   redeliver>>

\* node_client.transfer_notifs_filter(.. pk ..).await?
RegisterFilterOk ==
    /\ pc = "filter"
    /\ filters' = filters \cup {PublicKey(FromHex(sk).sk)}
    /\ pc' = "node_events"
    /\ UNCHANGED <<config, last_outcome, failed_call, ret, wallet, stream_open, disk,
                   consumed, batch, redeliver>>

\* Fault variant of RegisterFilterErr: the result of the registration is dropped
\* and the stream is requested all the same.
RegisterFilterErr_Ignore ==
    /\ pc = "filter"
    /\ failed_call' = "transfer_notifs_filter"
    /\ pc' = "node_events"
    /\ UNCHANGED <<config, last_outcome, ret, wallet, filters, stream_open, disk, consumed,
                   batch, redeliver>>

RegisterFilterErr ==
    /\ pc = "filter"
    /\ Fail("ErrFilter")
    /\ failed_call' = "transfer_notifs_filter"
    /\ UNCHANGED <<config, last_outcome, wallet, filters, stream_open, disk, consumed,
                   redeliver>>

\* node_client.node_events(..).await?
NodeEventsOk ==
    /\ pc = "node_events"
    /\ stream_open' = TRUE
    /\ pc' = "create_dir"
    /\ UNCHANGED <<config, last_outcome, failed_call, ret, wallet, filters, disk, consumed,
                   batch, redeliver>>

NodeEventsErr ==
    /\ pc = "node_events"
    /\ Fail("ErrNodeEvents")
    /\ failed_call' = "node_events"
    /\ UNCHANGED <<config, last_outcome, wallet, filters, stream_open, disk, consumed,
                   redeliver>>

\* if let Some(ref path) = log_cash_notes { fs::create_dir_all(path)?; }
CreateDirOk ==
    /\ pc = "create_dir"
    /\ \E path \in log_cash_notes : dirs' = dirs \cup {path}
    /\ pc' = "next"
    /\ UNCHANGED <<config, last_outcome, failed_call, ret, wallet, filters, stream_open,
                   files, persisted, consumed, batch, redeliver>>

CreateDirErr ==
    /\ pc = "create_dir"
    /\ log_cash_notes # {}
    /\ Fail("ErrCreateDir")
    /\ failed_call' = "create_dir_all"
    /\ UNCHANGED <<config, last_outcome, wallet, filters, stream_open, disk, consumed,
                   redeliver>>

\* log_cash_notes is None
CreateDirSkip ==
    /\ pc = "create_dir"
    /\ log_cash_notes = {}
    /\ pc' = "next"
    /\ UNCHANGED <<config, last_outcome, failed_call, ret, wallet, filters, stream_open,
                   disk, consumed, batch, redeliver>>

(***************************************************************************)
(* The loop: lines 275-341                                                 *)
(***************************************************************************)

\* The end of an iteration: its variables go out of scope and the loop is back
\* at stream.next().
EndIteration ==
    /\ pc' = "next"
    /\ NoIteration

\* stream.next().await is Some(Ok(e)), a new item
NextItem ==
    /\ pc = "next"
    /\ consumed < MaxItems
    /\ redeliver = {}
    /\ \E b \in Payloads : e' = b
    /\ redelivered' = FALSE
    /\ consumed' = consumed + 1
    /\ pc' = "decode"
    /\ last_outcome' = "none"
    /\ UNCHANGED <<config, failed_call, ret, wallet, filters, stream_open, disk, t_idx,
                   cash_notes, cn_idx, deposit_calls, redeliver>>

\* stream.next().await is Some(Ok(e)), the item the stream delivers once more
NextItemAgain ==
    /\ pc = "next"
    /\ consumed < MaxItems
    /\ \E b \in redeliver : e' = b
    /\ redeliver' = {}
    /\ redelivered' = TRUE
    /\ consumed' = consumed + 1
    /\ pc' = "decode"
    /\ last_outcome' = "none"
    /\ UNCHANGED <<config, failed_call, ret, wallet, filters, stream_open, disk, t_idx,
                   cash_notes, cn_idx, deposit_calls>>

\* stream.next().await is None: the loop ends and the function returns Ok(())
StreamEnd ==
    /\ pc = "next"
    /\ pc' = "done"
    /\ ret' = "Ok"
    /\ stream_open' = FALSE
    /\ UNCHANGED <<config, last_outcome, failed_call, wallet, filters, disk, consumed,
                   batch, redeliver>>

\* Fault variant of StreamErr: the transport error is skipped and the loop waits
\* for the next item.
StreamErr_Resume ==
    /\ pc = "next"
    /\ failed_call' = "stream_next"
    /\ UNCHANGED <<config, last_outcome, pc, ret, wallet, filters, stream_open, disk,
                   consumed, batch, redeliver>>

\* stream.next().await is Some(Err(_)): `while let Some(Ok(e))` does not match,
\* the loop ends and the function returns Ok(())
StreamErr ==
    /\ pc = "next"
    /\ pc' = "done"
    /\ ret' = "Ok"
    /\ stream_open' = FALSE
    /\ failed_call' = "stream_next"
    /\ UNCHANGED <<config, last_outcome, wallet, filters, disk, consumed, batch, redeliver>>

\* Fault variant of DecodeTransferNotif: the wallet is loaded inside the loop, a
\* fresh one for every notification.
DecodeTransferNotif_NewWallet ==
    /\ pc = "decode"
    /\ FromBytes(e).ok
    /\ FromBytes(e).event.kind = "TransferNotif"
    /\ wallet' = [loaded |-> TRUE, pk |-> wallet.pk, balance |-> 0, ids |-> {}]
    /\ cash_notes' = <<>>
    /\ t_idx' = 1
    /\ pc' = "verify"
    /\ UNCHANGED <<config, last_outcome, failed_call, ret, filters, stream_open, disk,
                   consumed, e, redelivered, cn_idx, deposit_calls, redeliver>>

\* NodeEvent::from_bytes is Ok(NodeEvent::TransferNotif { key, transfers })
DecodeTransferNotif ==
    /\ pc = "decode"
    /\ FromBytes(e).ok
    /\ FromBytes(e).event.kind = "TransferNotif"
    /\ cash_notes' = <<>>
    /\ t_idx' = 1
    /\ pc' = "verify"
    /\ UNCHANGED <<config, last_outcome, failed_call, ret, wallet, filters, stream_open,
                   disk, consumed, e, redelivered, cn_idx, deposit_calls, redeliver>>

\* Fault variant of DecodeOther: any decoded event is taken for a transfer
\* notification.
DecodeOther_AsNotif ==
    /\ pc = "decode"
    /\ FromBytes(e).ok
    /\ FromBytes(e).event.kind # "TransferNotif"
    /\ cash_notes' = <<>>
    /\ t_idx' = 1
    /\ pc' = "verify"
    /\ UNCHANGED <<config, last_outcome, failed_call, ret, wallet, filters, stream_open,
                   disk, consumed, e, redelivered, cn_idx, deposit_calls, redeliver>>

\* Ok(_) => continue
DecodeOther ==
    /\ pc = "decode"
    /\ FromBytes(e).ok
    /\ FromBytes(e).event.kind # "TransferNotif"
    /\ EndIteration
    /\ last_outcome' = "other"
    /\ UNCHANGED <<config, failed_call, ret, wallet, filters, stream_open, disk, consumed,
                   redeliver>>

\* Fault variant of DecodeErr: the loop ends at the first item that does not
\* decode, as `while let Some(Ok(..))` does for a transport error.
DecodeErr_Break ==
    /\ pc = "decode"
    /\ ~FromBytes(e).ok
    /\ pc' = "done"
    /\ ret' = "Ok"
    /\ last_outcome' = "decode_err"
    /\ UNCHANGED <<config, failed_call, wallet, filters, stream_open, disk, consumed,
                   batch, redeliver>>

\* Err(_) => println!("Error while parsing received NodeEvent")
DecodeErr ==
    /\ pc = "decode"
    /\ ~FromBytes(e).ok
    /\ EndIteration
    /\ last_outcome' = "decode_err"
    /\ UNCHANGED <<config, failed_call, ret, wallet, filters, stream_open, disk, consumed,
                   redeliver>>

\* Fault variant of VerifyOk: the notes of each transfer are deposited as soon as
\* they are unpacked.
VerifyOk_DepositEach ==
    /\ pc = "verify"
    /\ t_idx <= Len(transfers)
    /\ transfers[t_idx].kind = "Encrypted"
    /\ VerifyAndUnpackTransfer(transfers[t_idx], wallet).ok
    /\ cash_notes' = cash_notes \o VerifyAndUnpackTransfer(transfers[t_idx], wallet).cns
    /\ wallet' = Deposit(wallet, VerifyAndUnpackTransfer(transfers[t_idx], wallet).cns)
    /\ deposit_calls' = Append(deposit_calls,
           [notes |-> VerifyAndUnpackTransfer(transfers[t_idx], wallet).cns, ok |-> TRUE])
    /\ t_idx' = t_idx + 1
    /\ UNCHANGED <<config, failed_call, last_outcome, pc, ret, filters, stream_open, disk,
                   consumed, e, redelivered, cn_idx, redeliver>>

\* Fault variant of VerifyOk: with a path configured, the file of the first
\* unpacked note is written as soon as the transfer is unpacked, before any
\* deposit.
VerifyOk_WriteEarly ==
    /\ pc = "verify"
    /\ t_idx <= Len(transfers)
    /\ transfers[t_idx].kind = "Encrypted"
    /\ VerifyAndUnpackTransfer(transfers[t_idx], wallet).ok
    /\ cash_notes' = cash_notes \o VerifyAndUnpackTransfer(transfers[t_idx], wallet).cns
    /\ t_idx' = t_idx + 1
    /\ LET cn == VerifyAndUnpackTransfer(transfers[t_idx], wallet).cns[1]
       IN  IF log_cash_notes = {}
           THEN UNCHANGED <<files, persisted>>
           ELSE /\ \E path \in log_cash_notes :
                      files' = (Join(path, FileName(cn)) :> ToHex(cn)) @@ files
                /\ persisted' = persisted \cup {cn.unique_pubkey}
    /\ UNCHANGED <<config, last_outcome, failed_call, pc, ret, wallet, filters,
                   stream_open, dirs, consumed, e, redelivered, cn_idx, deposit_calls,
                   redeliver>>

\* Fault variant of VerifyOk: the unpacked notes are put in front of the
\* accumulated ones.
VerifyOk_Prepend ==
    /\ pc = "verify"
    /\ t_idx <= Len(transfers)
    /\ transfers[t_idx].kind = "Encrypted"
    /\ VerifyAndUnpackTransfer(transfers[t_idx], wallet).ok
    /\ cash_notes' = VerifyAndUnpackTransfer(transfers[t_idx], wallet).cns \o cash_notes
    /\ t_idx' = t_idx + 1
    /\ UNCHANGED <<config, last_outcome, failed_call, pc, ret, wallet, filters,
                   stream_open, disk, consumed, e, redelivered, cn_idx, deposit_calls,
                   redeliver>>

\* Transfer::Encrypted(_), verify_and_unpack_transfer is Ok(cns):
\* cash_notes.extend(cns)
VerifyOk ==
    /\ pc = "verify"
    /\ t_idx <= Len(transfers)
    /\ transfers[t_idx].kind = "Encrypted"
    /\ VerifyAndUnpackTransfer(transfers[t_idx], wallet).ok
    /\ cash_notes' = cash_notes \o VerifyAndUnpackTransfer(transfers[t_idx], wallet).cns
    /\ t_idx' = t_idx + 1
    /\ UNCHANGED <<config, last_outcome, failed_call, pc, ret, wallet, filters,
                   stream_open, disk, consumed, e, redelivered, cn_idx, deposit_calls,
                   redeliver>>

\* Fault variant of VerifyErr: the error is propagated with `?`.
VerifyErr_Abort ==
    /\ pc = "verify"
    /\ t_idx <= Len(transfers)
    /\ transfers[t_idx].kind = "Encrypted"
    /\ ~VerifyAndUnpackTransfer(transfers[t_idx], wallet).ok
    /\ Fail("ErrVerify")
    /\ failed_call' = "verify_and_unpack_transfer"
    /\ UNCHANGED <<config, last_outcome, wallet, filters, stream_open, disk, consumed,
                   redeliver>>

\* Transfer::Encrypted(_), verify_and_unpack_transfer is Err(err):
\* warn!("Transfer received is invalid or not for us. Ignoring it"); continue
VerifyErr ==
    /\ pc = "verify"
    /\ t_idx <= Len(transfers)
    /\ transfers[t_idx].kind = "Encrypted"
    /\ ~VerifyAndUnpackTransfer(transfers[t_idx], wallet).ok
    /\ t_idx' = t_idx + 1
    /\ UNCHANGED <<config, last_outcome, failed_call, pc, ret, wallet, filters,
                   stream_open, disk, consumed, e, redelivered, cash_notes, cn_idx,
                   deposit_calls, redeliver>>

\* Fault variant of NetworkRoyalties: the royalty's notes are accumulated.
NetworkRoyalties_Unpack ==
    /\ pc = "verify"
    /\ t_idx <= Len(transfers)
    /\ transfers[t_idx].kind = "NetworkRoyalties"
    /\ cash_notes' = cash_notes \o CashNotesOf(transfers[t_idx].notes)
    /\ t_idx' = t_idx + 1
    /\ UNCHANGED <<config, failed_call, last_outcome, pc, ret, wallet, filters,
                   stream_open, disk, consumed, e, redelivered, cn_idx, deposit_calls,
                   redeliver>>

\* Transfer::NetworkRoyalties(_): warn!(".. Ignoring it.")
NetworkRoyalties ==
    /\ pc = "verify"
    /\ t_idx <= Len(transfers)
    /\ transfers[t_idx].kind = "NetworkRoyalties"
    /\ t_idx' = t_idx + 1
    /\ UNCHANGED <<config, last_outcome, failed_call, pc, ret, wallet, filters,
                   stream_open, disk, consumed, e, redelivered, cash_notes, cn_idx,
                   deposit_calls, redeliver>>

\* Fault variant of DepositOk: the first accumulated CashNote is left out of the
\* deposit.
DepositOk_SkipFirst ==
    /\ pc = "verify"
    /\ t_idx > Len(transfers)
    /\ wallet' = Deposit(wallet, SubSeq(cash_notes, 2, Len(cash_notes)))
    /\ deposit_calls' = Append(deposit_calls, [notes |-> cash_notes, ok |-> TRUE])
    /\ cn_idx' = 1
    /\ pc' = "notes"
    /\ UNCHANGED <<config, last_outcome, failed_call, ret, filters, stream_open, disk,
                   consumed, e, redelivered, t_idx, cash_notes, redeliver>>

\* The sum of the values of a sequence of CashNotes.
RECURSIVE SeqValue(_)
SeqValue(cns) == IF cns = <<>> THEN 0 ELSE Head(cns).value + SeqValue(Tail(cns))

\* Fault variant of DepositOk: the loop adds the value of every accumulated
\* CashNote to the balance, held or not.
DepositOk_Recount ==
    /\ pc = "verify"
    /\ t_idx > Len(transfers)
    /\ wallet' = [wallet EXCEPT !.ids = @ \cup {cash_notes[i].unique_pubkey : i \in 1..Len(cash_notes)},
                              !.balance = @ + SeqValue(cash_notes)]
    /\ deposit_calls' = Append(deposit_calls, [notes |-> cash_notes, ok |-> TRUE])
    /\ cn_idx' = 1
    /\ pc' = "notes"
    /\ UNCHANGED <<config, last_outcome, failed_call, ret, filters, stream_open, disk,
                   consumed, e, redelivered, t_idx, cash_notes, redeliver>>

\* wallet.deposit(&cash_notes) is Ok
DepositOk ==
    /\ pc = "verify"
    /\ t_idx > Len(transfers)
    /\ wallet' = Deposit(wallet, cash_notes)
    /\ deposit_calls' = Append(deposit_calls, [notes |-> cash_notes, ok |-> TRUE])
    /\ cn_idx' = 1
    /\ pc' = "notes"
    /\ UNCHANGED <<config, last_outcome, failed_call, ret, filters, stream_open, disk,
                   consumed, e, redelivered, t_idx, cash_notes, redeliver>>

\* Fault variant of DepositErr: the error is logged and the loop goes on.
DepositErr_Continue ==
    /\ pc = "verify"
    /\ t_idx > Len(transfers)
    /\ \E k \in 0..Len(cash_notes) : wallet' = Deposit(wallet, SubSeq(cash_notes, 1, k))
    /\ deposit_calls' = Append(deposit_calls, [notes |-> cash_notes, ok |-> FALSE])
    /\ failed_call' = "deposit"
    /\ cn_idx' = 1
    /\ pc' = "notes"
    /\ UNCHANGED <<config, last_outcome, ret, filters, stream_open, disk, consumed, e,
                   redelivered, t_idx, cash_notes, redeliver>>

\* wallet.deposit(&cash_notes)? is Err: the notes before the failing one may
\* have been taken in
DepositErr ==
    /\ pc = "verify"
    /\ t_idx > Len(transfers)
    /\ \E k \in 0..Len(cash_notes) : wallet' = Deposit(wallet, SubSeq(cash_notes, 1, k))
    /\ Fail("ErrDeposit")
    /\ failed_call' = "deposit"
    /\ UNCHANGED <<config, last_outcome, filters, stream_open, disk, consumed, redeliver>>

\* Fault variant of CashNoteFilePath: the file is named after the position of
\* the CashNote in the notification as well.
CashNoteFilePath_Indexed(path, cn) == Join(path, <<FileName(cn), cn_idx>>)

\* The path of the file of `cn` under `path`: lines 316-321
CashNoteFilePath(path, cn) == Join(path, FileName(cn))

\* for cn in cash_notes, log_cash_notes is Some(path): the CashNote is printed
\* and fs::write(cash_note_file_path, &hex) is Ok
WriteCashNote ==
    /\ pc = "notes"
    /\ cn_idx <= Len(cash_notes)
    /\ \E path \in log_cash_notes :
          files' = (CashNoteFilePath(path, cash_notes[cn_idx]) :> ToHex(cash_notes[cn_idx]))
                   @@ files
    /\ persisted' = persisted \cup {cash_notes[cn_idx].unique_pubkey}
    /\ cn_idx' = cn_idx + 1
    /\ UNCHANGED <<config, last_outcome, failed_call, pc, ret, wallet, filters,
                   stream_open, dirs, consumed, e, redelivered, t_idx, cash_notes,
                   deposit_calls, redeliver>>

\* Fault variant of PrintCashNote: without a configured path the file is written
\* to the current directory.
PrintCashNote_Write ==
    /\ pc = "notes"
    /\ cn_idx <= Len(cash_notes)
    /\ log_cash_notes = {}
    /\ files' = (CashNoteFilePath("", cash_notes[cn_idx]) :> ToHex(cash_notes[cn_idx])) @@ files
    /\ persisted' = persisted \cup {cash_notes[cn_idx].unique_pubkey}
    /\ cn_idx' = cn_idx + 1
    /\ UNCHANGED <<config, failed_call, last_outcome, pc, ret, wallet, filters,
                   stream_open, dirs, consumed, e, redelivered, t_idx, cash_notes,
                   deposit_calls, redeliver>>

\* for cn in cash_notes, log_cash_notes is None: the CashNote is only printed
PrintCashNote ==
    /\ pc = "notes"
    /\ cn_idx <= Len(cash_notes)
    /\ log_cash_notes = {}
    /\ cn_idx' = cn_idx + 1
    /\ UNCHANGED <<config, last_outcome, failed_call, pc, ret, wallet, filters,
                   stream_open, disk, consumed, e, redelivered, t_idx, cash_notes,
                   deposit_calls, redeliver>>

\* cn.value()? is Err
ValueErr ==
    /\ pc = "notes"
    /\ cn_idx <= Len(cash_notes)
    /\ Fail("ErrValue")
    /\ failed_call' = "value"
    /\ UNCHANGED <<config, last_outcome, wallet, filters, stream_open, disk, consumed,
                   redeliver>>

\* cn.to_hex()? is Err
ToHexErr ==
    /\ pc = "notes"
    /\ cn_idx <= Len(cash_notes)
    /\ log_cash_notes # {}
    /\ Fail("ErrToHex")
    /\ failed_call' = "to_hex"
    /\ UNCHANGED <<config, last_outcome, wallet, filters, stream_open, disk, consumed,
                   redeliver>>

\* fs::write(..)? is Err: the file is as it was, or was created or cut short
WriteErr ==
    /\ pc = "notes"
    /\ cn_idx <= Len(cash_notes)
    /\ \E path \in log_cash_notes :
          \/ files' = files
          \/ files' = (CashNoteFilePath(path, cash_notes[cn_idx]) :> Truncated) @@ files
    /\ Fail("ErrWrite")
    /\ failed_call' = "write"
    /\ UNCHANGED <<config, last_outcome, wallet, filters, stream_open, dirs, persisted,
                   consumed, redeliver>>

\* Fault variant of Report: the function returns after the first notification it
\* has reported.
Report_Return ==
    /\ pc = "notes"
    /\ cn_idx > Len(cash_notes)
    /\ pc' = "done"
    /\ ret' = "Ok"
    /\ NoIteration
    /\ last_outcome' = "transfer_notif"
    /\ UNCHANGED <<config, failed_call, wallet, filters, stream_open, disk, consumed,
                   redeliver>>

\* println!("New balance after depositing received CashNote/s: {}", wallet.balance())
\* and the next iteration. The stream may deliver the same notification once
\* more (a redelivery after a reconnect).
Report ==
    /\ pc = "notes"
    /\ cn_idx > Len(cash_notes)
    /\ redeliver' \in {{}, {e}}
    /\ EndIteration
    /\ last_outcome' = "transfer_notif"
    /\ UNCHANGED <<config, failed_call, ret, wallet, filters, stream_open, disk, consumed>>

Next ==
    \/ ParseSkOk \/ ParseSkErr
    \/ ClientNewOk \/ ClientNewErr
    \/ WalletLoadOk \/ WalletLoadErr
    \/ ConnectOk \/ ConnectErr
    \/ RegisterFilterOk \/ RegisterFilterErr
    \/ NodeEventsOk \/ NodeEventsErr
    \/ CreateDirOk \/ CreateDirErr \/ CreateDirSkip
    \/ NextItem \/ NextItemAgain \/ StreamEnd \/ StreamErr
    \/ DecodeTransferNotif \/ DecodeOther \/ DecodeErr
    \/ VerifyOk \/ VerifyErr \/ NetworkRoyalties
    \/ DepositOk \/ DepositErr
    \/ WriteCashNote \/ PrintCashNote \/ ValueErr \/ ToHexErr \/ WriteErr
    \/ Report

Spec == Init /\ [][Next]_vars

(***************************************************************************)
(* Scheduling                                                              *)
(***************************************************************************)

\* The steps of the loop body. Once stream.next() has returned an item the task
\* runs the body to the end of the iteration or to a `?` that returns: the body
\* waits for no further input of the stream.
Processing ==
    \/ DecodeTransferNotif \/ DecodeOther \/ DecodeErr
    \/ VerifyOk \/ VerifyErr \/ NetworkRoyalties
    \/ DepositOk \/ DepositErr
    \/ WriteCashNote \/ PrintCashNote \/ ValueErr \/ ToHexErr \/ WriteErr
    \/ Report

FairSpec == Spec /\ WF_vars(Processing)

(***************************************************************************)
(* Cancellation: line 267                                                  *)
(***************************************************************************)

\* "(press Ctrl+C to exit)": transfers_events installs no handler and selects on
\* no shutdown signal, so the signal ends the process wherever it is; what was
\* done up to that statement stays done, the rest of the iteration never runs.
Interrupt ==
    /\ pc # "done"
    /\ pc' = "done"
    /\ ret' = "Interrupted"
    /\ UNCHANGED <<config, last_outcome, failed_call, wallet, filters, stream_open, disk,
                   consumed, batch, redeliver>>

NextCancel == Next \/ Interrupt

\* The session with a user who may press Ctrl+C.
SpecCancel == Init /\ [][NextCancel]_vars

(***************************************************************************)
(* Vocabulary of the properties                                            *)
(***************************************************************************)

\* The sum of the values of the CashNotes with the unique pubkeys in `ids`.
RECURSIVE SumValues(_)
SumValues(ids) ==
    IF ids = {} THEN 0
    ELSE LET id == CHOOSE x \in ids : TRUE
         IN  Value(id) + SumValues(ids \ {id})

\* The unique pubkeys of a sequence of CashNotes.
NoteIds(cns) == {cns[i].unique_pubkey : i \in 1..Len(cns)}

\* Whether the CashNotes of a sequence have pairwise distinct unique pubkeys.
PairwiseDistinct(cns) == Cardinality(NoteIds(cns)) = Len(cns)

\* Whether a transfer is one the holder of `pk` can unpack.
ForUs(transfer, pk) ==
    transfer.kind = "Encrypted" /\ transfer.cipher = "ok" /\ transfer.to = pk

\* The CashNotes expected from a list of transfers: those of the transfers that
\* are for the holder of `pk`, in the order of the list.
RECURSIVE ExpectedNotes(_, _)
ExpectedNotes(ts, pk) ==
    IF ts = <<>> THEN <<>>
    ELSE (IF ForUs(Head(ts), pk) THEN CashNotesOf(Head(ts).notes) ELSE <<>>)
         \o ExpectedNotes(Tail(ts), pk)

\* The session is between the decoding of a transfer notification and the end
\* of its iteration, or ended inside it.
InBatch == FromBytes(e).ok /\ FromBytes(e).event.kind = "TransferNotif" /\ pc # "decode"

\* The complete file of a CashNote is on disk under `path`.
FileWritten(path, cn) ==
    /\ CashNoteFilePath(path, cn) \in DOMAIN files
    /\ files[CashNoteFilePath(path, cn)] = ToHex(cn)

\* A step in which wallet.deposit was called, and one in which it returned Ok.
DepositCalled == Len(deposit_calls') = Len(deposit_calls) + 1
DepositReturnedOk == DepositCalled /\ deposit_calls'[Len(deposit_calls')].ok

(***************************************************************************)
(* C1. With a note-store path configured, every CashNote of the current    *)
(* notification that is reflected in the wallet has its file written: the  *)
(* files are written before the deposit. (The loop deposits first, line    *)
(* 305, and writes afterwards, lines 307-327.)                             *)
(***************************************************************************)
C1_PersistBeforeDeposit ==
    \A path \in log_cash_notes :
        InBatch =>
            \A i \in 1..Len(cash_notes) :
                cash_notes[i].unique_pubkey \in wallet.ids => FileWritten(path, cash_notes[i])

(***************************************************************************)
(* C2. Deposit exactness: a successful deposit of CashNotes with pairwise  *)
(* distinct unique pubkeys, none of them held, raises the balance by the   *)
(* sum of their values; a deposit of CashNotes that are all held leaves    *)
(* the balance as it is; at all times the balance is the sum of the values *)
(* of the held unique pubkeys, each counted once.                          *)
(***************************************************************************)
C2_DepositStep ==
    DepositReturnedOk =>
        /\ (PairwiseDistinct(cash_notes) /\ NoteIds(cash_notes) \cap wallet.ids = {})
               => Balance(wallet') = Balance(wallet) + SumValues(NoteIds(cash_notes))
        /\ NoteIds(cash_notes) \subseteq wallet.ids => Balance(wallet') = Balance(wallet)
        /\ Balance(wallet') = Balance(wallet) + SumValues(NoteIds(cash_notes) \ wallet.ids)
        /\ wallet'.ids = wallet.ids \cup NoteIds(cash_notes)

C2_DepositExactness ==
    /\ [](Balance(wallet) = SumValues(wallet.ids))
    /\ [][C2_DepositStep]_vars

\* A batch of two distinct CashNotes worth 3 and 4 was deposited into an empty
\* wallet, and the identical batch has been deposited again: the balance is 7.
C2_Witness ==
    /\ redelivered
    /\ pc = "notes"
    /\ Len(cash_notes) = 2
    /\ PairwiseDistinct(cash_notes)
    /\ Len(deposit_calls) = 1
    /\ deposit_calls[1].ok
    /\ wallet.ids = {"n2", "n3"}
    /\ Balance(wallet) = 7

(***************************************************************************)
(* C3. Redelivery idempotence: when the notification just processed is     *)
(* delivered again, its CashNotes are already in the wallet and, with a    *)
(* path configured, in their files, and no step of the second processing   *)
(* that lets the session continue changes the wallet or the files: the     *)
(* balance, the set of files and their contents are what they were after   *)
(* the first delivery. The same holds for a later redelivery: the notes of *)
(* a processed notification stay settled while the session runs, and a     *)
(* notification whose notes are all settled changes nothing.               *)
(***************************************************************************)
SettledId(id) ==
    /\ id \in wallet.ids
    /\ \A path \in log_cash_notes : FileWritten(path, CashNote(id))

Settled(cns) == \A i \in 1..Len(cns) : SettledId(cns[i].unique_pubkey)

NoteUniverse == UNION {{t.notes[i] : i \in 1..Len(t.notes)} : t \in Transfers}

C3_SecondDelivery ==
    (redelivered /\ InBatch) => Settled(ExpectedNotes(transfers, wallet.pk))

C3_ProcessedStep ==
    (pc = "notes" /\ pc' = "next") => Settled(ExpectedNotes(transfers, wallet.pk))

C3_StaysSettledStep ==
    ret' = "running" => \A id \in NoteUniverse : SettledId(id) => SettledId(id)'

C3_SettledStep ==
    (InBatch /\ Settled(ExpectedNotes(transfers, wallet.pk)) /\ ret' = "running")
        => (wallet' = wallet /\ files' = files)

C3_RedeliveryIdempotent ==
    /\ []C3_SecondDelivery
    /\ [][C3_ProcessedStep /\ C3_StaysSettledStep /\ C3_SettledStep]_vars

\* The second delivery of a notification with a CashNote for the holder has
\* been processed to its end: the balance is still the value of its notes and
\* there is still one file per note.
C3_Witness ==
    /\ redelivered
    /\ pc = "notes"
    /\ log_cash_notes # {}
    /\ Len(cash_notes) >= 1
    /\ cn_idx > Len(cash_notes)
    /\ Len(deposit_calls) = 1
    /\ Balance(wallet) = SumValues(NoteIds(cash_notes))
    /\ Cardinality(DOMAIN files) = Cardinality(NoteIds(cash_notes))

(***************************************************************************)
(* C4. Verification exclusivity: the step that handles an Encrypted        *)
(* transfer addressed to another key, or invalid for the holder's key,     *)
(* adds no CashNote, changes neither the wallet nor the disk, and goes on  *)
(* to the next transfer of the same notification; the transfers for the    *)
(* holder in the same notification still yield their CashNotes.            *)
(***************************************************************************)
NotVerifying(transfer) ==
    /\ transfer.kind = "Encrypted"
    /\ VerifyAndUnpackTransfer(transfer, wallet).err \in {"not_for_us", "invalid"}

C4_SkipStep ==
    (pc = "verify" /\ t_idx <= Len(transfers) /\ NotVerifying(transfers[t_idx])) =>
        /\ cash_notes' = cash_notes
        /\ wallet' = wallet
        /\ files' = files /\ dirs' = dirs
        /\ ret' = "running" /\ pc' = "verify"
        /\ e' = e /\ t_idx' = t_idx + 1

C4_RestProcessed ==
    (InBatch /\ Len(deposit_calls) > 0) =>
        /\ t_idx = Len(transfers) + 1
        /\ \A i \in 1..Len(transfers) :
               ForUs(transfers[i], wallet.pk) =>
                   NoteIds(CashNotesOf(transfers[i].notes)) \subseteq NoteIds(cash_notes)
        /\ NoteIds(cash_notes) \subseteq
               UNION {NoteIds(CashNotesOf(transfers[i].notes)) :
                        i \in {j \in 1..Len(transfers) : ForUs(transfers[j], wallet.pk)}}

C4_VerificationExclusivity ==
    /\ []C4_RestProcessed
    /\ [][C4_SkipStep]_vars

\* A notification with a transfer for another key followed by one for the
\* holder worth 5: one CashNote, balance 5, one file.
C4_Witness ==
    /\ pc = "notes"
    /\ Len(transfers) = 2
    /\ NotVerifying(transfers[1])
    /\ transfers[1].to # wallet.pk
    /\ ForUs(transfers[2], wallet.pk)
    /\ Len(cash_notes) = 1
    /\ cn_idx > Len(cash_notes)
    /\ Balance(wallet) = 5
    /\ Cardinality(DOMAIN files) = 1

(***************************************************************************)
(* C5. Royalty pass-through: the step that handles a NetworkRoyalties      *)
(* transfer adds no CashNote, changes neither the wallet nor the disk and  *)
(* goes on to the next transfer; no CashNote of a NetworkRoyalties         *)
(* transfer is ever accumulated, deposited or written.                     *)
(***************************************************************************)
RoyaltyIds ==
    UNION {{t.notes[i] : i \in 1..Len(t.notes)} : t \in {x \in Transfers : x.kind = "NetworkRoyalties"}}

C5_RoyaltyStep ==
    (pc = "verify" /\ t_idx <= Len(transfers) /\ transfers[t_idx].kind = "NetworkRoyalties") =>
        /\ cash_notes' = cash_notes
        /\ wallet' = wallet
        /\ files' = files /\ dirs' = dirs
        /\ ret' = "running" /\ pc' = "verify"
        /\ e' = e /\ t_idx' = t_idx + 1

C5_NoRoyaltyNote ==
    /\ NoteIds(cash_notes) \cap RoyaltyIds = {}
    /\ wallet.ids \cap RoyaltyIds = {}
    /\ persisted \cap RoyaltyIds = {}
    /\ \A path \in log_cash_notes, id \in RoyaltyIds :
           CashNoteFilePath(path, CashNote(id)) \notin DOMAIN files

C5_RoyaltyPassThrough ==
    /\ []C5_NoRoyaltyNote
    /\ [][C5_RoyaltyStep]_vars

\* A notification with a NetworkRoyalties transfer followed by a transfer for
\* the holder has been processed to its end.
C5_Witness ==
    /\ pc = "notes"
    /\ Len(transfers) = 2
    /\ transfers[1].kind = "NetworkRoyalties"
    /\ ForUs(transfers[2], wallet.pk)
    /\ cn_idx > Len(cash_notes)
    /\ Len(cash_notes) >= 1
    /\ NoteIds(cash_notes) \subseteq wallet.ids

(***************************************************************************)
(* C6. Decode resilience: the step that handles a stream item whose bytes  *)
(* do not decode changes neither the wallet nor the disk, does not end the *)
(* session, and leaves the loop waiting for the next item with fresh loop  *)
(* variables, the state from which any item is processed.                  *)
(***************************************************************************)
C6_DecodeErrStep ==
    (pc = "decode" /\ ~FromBytes(e).ok) =>
        /\ wallet' = wallet
        /\ files' = files /\ dirs' = dirs /\ persisted' = persisted
        /\ ret' = "running" /\ pc' = "next"
        /\ stream_open' = stream_open /\ filters' = filters
        /\ e' = NoItem /\ t_idx' = 1 /\ cash_notes' = <<>> /\ cn_idx' = 1
        /\ deposit_calls' = <<>>

C6_AfterDecodeErr ==
    last_outcome = "decode_err" =>
        /\ ret = "Ok" \/ (ret = "running" /\ pc = "next")
        /\ failed_call \in {"none", "stream_next"}

C6_DecodeResilience ==
    /\ []C6_AfterDecodeErr
    /\ [][C6_DecodeErrStep]_vars

\* An item that did not decode has been handled after a notification was
\* deposited and written; the loop waits for the next item, which it may take.
C6_Witness ==
    /\ last_outcome = "decode_err"
    /\ pc = "next"
    /\ ret = "running"
    /\ consumed < MaxItems
    /\ Balance(wallet) > 0
    /\ DOMAIN files # {}
    /\ ENABLED NextItem

(***************************************************************************)
(* C7. Fatal failures end the session: once wallet.deposit or fs::write    *)
(* has returned an error, transfers_events has returned that error, and    *)
(* from then on no item is received, no transfer verified, no CashNote     *)
(* deposited or written.                                                   *)
(***************************************************************************)
C7_Returned ==
    /\ failed_call = "deposit" => (pc = "done" /\ ret = "ErrDeposit")
    /\ failed_call = "write" => (pc = "done" /\ ret = "ErrWrite" /\ log_cash_notes # {})

C7_NothingAfter ==
    failed_call \in {"deposit", "write"} =>
        UNCHANGED <<pc, ret, consumed, e, t_idx, cash_notes, cn_idx, deposit_calls, wallet,
                    files, dirs, persisted>>

C7_FatalEndsSession ==
    /\ []C7_Returned
    /\ [][C7_NothingAfter]_vars

\* fs::write failed after an earlier CashNote had been written, while the stream
\* had further items to deliver.
C7_Witness ==
    /\ failed_call = "write"
    /\ ret = "ErrWrite"
    /\ pc = "done"
    /\ persisted # {}
    /\ Balance(wallet) > 0
    /\ consumed < MaxItems

(***************************************************************************)
(* C8. Batch atomicity: for a transfer notification wallet.deposit is      *)
(* called once, after the last transfer was handled, with the CashNotes    *)
(* of all the transfers of the notification that are for the holder; when  *)
(* it returned Ok, all of them are in the wallet; inside a notification    *)
(* the wallet changes in no other step, and the step in which the deposit  *)
(* fails, the only one that may take in a part of the notes, returns the   *)
(* deposit's error from the session.                                       *)
(***************************************************************************)
C8_OneCall ==
    /\ ~InBatch => deposit_calls = <<>>
    /\ InBatch =>
         /\ Len(deposit_calls) <= 1
         /\ (pc = "verify") = (deposit_calls = <<>>)
         /\ \A i \in 1..Len(deposit_calls) :
                /\ deposit_calls[i].notes = ExpectedNotes(transfers, wallet.pk)
                /\ deposit_calls[i].notes = cash_notes
                /\ deposit_calls[i].ok
                /\ NoteIds(cash_notes) \subseteq wallet.ids

C8_DepositFailStep ==
    (failed_call = "none" /\ failed_call' = "deposit") =>
        /\ pc = "verify" /\ t_idx = Len(transfers) + 1
        /\ deposit_calls = <<>>
        /\ cash_notes = ExpectedNotes(transfers, wallet.pk)
        /\ pc' = "done" /\ ret' = "ErrDeposit"

C8_WalletStep ==
    (InBatch /\ wallet' # wallet) =>
        \/ DepositReturnedOk /\ NoteIds(cash_notes) \subseteq wallet'.ids
        \/ failed_call' = "deposit" /\ ret' = "ErrDeposit"

C8_BatchAtomicity ==
    /\ []C8_OneCall
    /\ [][C8_DepositFailStep /\ C8_WalletStep]_vars

\* A notification with two transfers for the holder, three CashNotes in all, has
\* been deposited in one call.
C8_Witness ==
    /\ pc = "notes"
    /\ Len(transfers) = 2
    /\ Len(cash_notes) = 3
    /\ PairwiseDistinct(cash_notes)
    /\ Len(deposit_calls) = 1
    /\ deposit_calls[1].ok
    /\ NoteIds(cash_notes) \subseteq wallet.ids
    /\ Balance(wallet) = 12

(***************************************************************************)
(* C9. Optional persistence sink: without a configured path no directory   *)
(* and no file is ever written; with or without a path, a successful       *)
(* deposit takes the wallet to the deposit of the CashNotes of the         *)
(* notification's transfers for the holder, and the balance is the sum of  *)
(* the values of the held notes.                                           *)
(***************************************************************************)
C9_NoSink ==
    log_cash_notes = {} => (files = <<>> /\ dirs = {} /\ persisted = {})

C9_Deposited ==
    /\ Balance(wallet) = SumValues(wallet.ids)
    /\ (InBatch /\ pc = "notes") =>
           NoteIds(ExpectedNotes(transfers, wallet.pk)) \subseteq wallet.ids

C9_DepositStep ==
    DepositReturnedOk =>
        /\ wallet'.ids = wallet.ids \cup NoteIds(ExpectedNotes(transfers, wallet.pk))
        /\ Balance(wallet') =
              Balance(wallet)
              + SumValues(NoteIds(ExpectedNotes(transfers, wallet.pk)) \ wallet.ids)

C9_OptionalSink ==
    /\ [](C9_NoSink /\ C9_Deposited)
    /\ [][C9_DepositStep]_vars

\* Without a configured path three CashNotes have been deposited and printed,
\* and no file exists.
C9_Witness ==
    /\ log_cash_notes = {}
    /\ pc = "notes"
    /\ cn_idx > Len(cash_notes)
    /\ wallet.ids = {"n1", "n2", "n3"}
    /\ Balance(wallet) = 12
    /\ files = <<>>

C11_CancellationSafety ==
    (ret = "Interrupted" /\ deposit_calls # <<>>) =>
        \A path \in log_cash_notes : cn_idx > Len(cash_notes)

(***************************************************************************)
(* C12. A malformed holder key is fatal: the step that finds the key does  *)
(* not parse returns the error, and in a session started with such a key   *)
(* no wallet is created, no filter registered, no stream opened, no item   *)
(* consumed, no deposit made and no directory or file written.             *)
(***************************************************************************)
C12_ParseStep ==
    (pc = "parse_sk" /\ ~FromHex(sk).ok) => (pc' = "done" /\ ret' = "ErrParseSk")

C12_NothingStarted ==
    ~FromHex(sk).ok =>
        /\ pc \in {"parse_sk", "done"}
        /\ pc = "done" => (ret = "ErrParseSk" /\ failed_call = "from_hex")
        /\ wallet = NoWallet
        /\ filters = {}
        /\ ~stream_open
        /\ consumed = 0
        /\ deposit_calls = <<>>
        /\ dirs = {} /\ files = <<>> /\ persisted = {}

C12_MalformedKeyFatal ==
    /\ []C12_NothingStarted
    /\ [][C12_ParseStep]_vars

\* The session given the key "xyz" has returned the parse error.
C12_Witness ==
    /\ ~FromHex(sk).ok
    /\ pc = "done"
    /\ ret = "ErrParseSk"
    /\ failed_call = "from_hex"
    /\ wallet = NoWallet

(***************************************************************************)
(* C13. Closed is terminal: the loop closes only while waiting for an      *)
(* item, on the end of the stream or on a transport error, and the closing *)
(* step leaves the wallet and the note store as the last completed         *)
(* iteration left them; once closed, no item is received and nothing       *)
(* changes any more, also when the stream had further items to deliver.    *)
(***************************************************************************)
Closed == pc = "done" /\ ret = "Ok"

C13_CloseStep ==
    (~Closed /\ Closed') =>
        /\ pc = "next" /\ e = NoItem /\ cash_notes = <<>>
        /\ wallet' = wallet
        /\ files' = files /\ dirs' = dirs /\ persisted' = persisted
        /\ consumed' = consumed
        /\ ~stream_open'

C13_ClosedStep ==
    Closed =>
        UNCHANGED <<pc, ret, consumed, e, t_idx, cash_notes, cn_idx, deposit_calls, wallet,
                    files, dirs, persisted, stream_open>>

C13_TransportError == failed_call = "stream_next" => Closed

C13_ClosedTerminal ==
    /\ []C13_TransportError
    /\ [][C13_CloseStep /\ C13_ClosedStep]_vars

\* The loop closed on a transport error after a notification was deposited and
\* written, while the stream had further items to deliver.
C13_Witness ==
    /\ Closed
    /\ failed_call = "stream_next"
    /\ consumed >= 1 /\ consumed < MaxItems
    /\ Balance(wallet) > 0
    /\ DOMAIN files # {}

(***************************************************************************)
(* C14. An unexpected failure of the verification call is a hard error:    *)
(* the session never goes on past a transfer for which                     *)
(* verify_and_unpack_transfer failed for another reason than "addressed to *)
(* another key" or "invalid for this key". (The Err arm of lines 290-293   *)
(* takes every error alike: it warns and continues.)                       *)
(***************************************************************************)
UnexpectedFailure(transfer) ==
    /\ transfer.kind = "Encrypted"
    /\ VerifyAndUnpackTransfer(transfer, wallet).err = "unexpected"

C14_UnexpectedIsHardError ==
    (InBatch /\ ret = "running") =>
        \A i \in 1..(t_idx - 1) : ~UnexpectedFailure(transfers[i])

(***************************************************************************)
(* C15. Order of a batch: the transfers of a notification are handled one  *)
(* at a time in the order of the event; after the first k transfers the    *)
(* accumulated list is the concatenation, in that order, of the notes of   *)
(* those of the k transfers that are for the holder; each step of the      *)
(* verification handles exactly the next transfer and appends its notes;   *)
(* wallet.deposit is called only after the last transfer was handled.      *)
(***************************************************************************)
C15_Accumulated ==
    InBatch =>
        /\ t_idx \in 1..(Len(transfers) + 1)
        /\ cash_notes = ExpectedNotes(SubSeq(transfers, 1, t_idx - 1), wallet.pk)
        /\ pc = "notes" => t_idx = Len(transfers) + 1

C15_VerifyStep ==
    (pc = "verify" /\ pc' = "verify" /\ t_idx' # t_idx) =>
        /\ e' = e
        /\ t_idx' = t_idx + 1
        /\ cash_notes' = cash_notes \o ExpectedNotes(<<transfers[t_idx]>>, wallet.pk)

C15_DepositStep ==
    (DepositCalled \/ (failed_call = "none" /\ failed_call' = "deposit")) =>
        /\ pc = "verify"
        /\ t_idx = Len(transfers) + 1

C15_BatchOrder ==
    /\ []C15_Accumulated
    /\ [][C15_VerifyStep /\ C15_DepositStep]_vars

\* A notification whose first transfer holds n2 and n3 and whose second holds n1,
\* both for the holder, was accumulated as n2, n3, n1 and deposited.
C15_Witness ==
    /\ pc = "notes"
    /\ Len(transfers) = 2
    /\ ForUs(transfers[1], wallet.pk) /\ ForUs(transfers[2], wallet.pk)
    /\ transfers[1].notes = <<"n2", "n3">>
    /\ transfers[2].notes = <<"n1">>
    /\ cash_notes = <<CashNote("n2"), CashNote("n3"), CashNote("n1")>>
    /\ Len(deposit_calls) = 1

(***************************************************************************)
(* C16. A decoded event that is not a transfer notification is a no-op:    *)
(* the step that handles it changes neither the wallet nor the disk and    *)
(* returns the loop to waiting for the next item; while such an event is   *)
(* the current item nothing has been verified, accumulated or deposited.   *)
(***************************************************************************)
IsOtherEvent == FromBytes(e).ok /\ FromBytes(e).event.kind # "TransferNotif"

C16_OtherStep ==
    (pc = "decode" /\ IsOtherEvent) =>
        /\ wallet' = wallet
        /\ files' = files /\ dirs' = dirs /\ persisted' = persisted
        /\ ret' = "running" /\ pc' = "next"
        /\ stream_open' = stream_open
        /\ e' = NoItem /\ cash_notes' = <<>> /\ deposit_calls' = <<>>

C16_NothingDone ==
    /\ IsOtherEvent =>
          (pc = "decode" /\ t_idx = 1 /\ cash_notes = <<>> /\ cn_idx = 1 /\ deposit_calls = <<>>)
    /\ last_outcome = "other" => (Closed \/ (ret = "running" /\ pc = "next"))

C16_OtherEventNoOp ==
    /\ []C16_NothingDone
    /\ [][C16_OtherStep]_vars

\* An event of another kind has been handled after a notification was deposited
\* and written; the loop waits for the next item.
C16_Witness ==
    /\ last_outcome = "other"
    /\ pc = "next"
    /\ ret = "running"
    /\ consumed < MaxItems
    /\ Balance(wallet) > 0
    /\ DOMAIN files # {}

C17_FatalCall == failed_call \in {"deposit", "value", "to_hex", "write"}

C17_EndedBy ==
    (pc = "done" /\ consumed > 0) => (Closed \/ C17_FatalCall)

C18_FilterFirst ==
    (stream_open \/ consumed > 0 \/ pc \in {"node_events", "create_dir", "next", "decode", "verify", "notes"})
        => (wallet.loaded /\ filters = {wallet.pk})

C18_FilterFailed ==
    failed_call = "transfer_notifs_filter" =>
        /\ pc = "done" /\ ret = "ErrFilter"
        /\ filters = {}
        /\ ~stream_open
        /\ consumed = 0
        /\ wallet.ids = {} /\ Balance(wallet) = 0
        /\ dirs = {} /\ files = <<>>

C18_StreamStep ==
    /\ (~stream_open /\ stream_open') => (pc = "node_events" /\ wallet.pk \in filters)
    /\ consumed' # consumed => (stream_open /\ wallet.pk \in filters)

C18_FilterBeforeStream ==
    /\ [](C18_FilterFirst /\ C18_FilterFailed)
    /\ [][C18_StreamStep]_vars

\* The first item has been received from the stream opened after the filter for
\* the holder's key was registered.
C18_Witness ==
    /\ pc = "decode"
    /\ consumed = 1
    /\ stream_open
    /\ wallet.pk = PublicKey(sk)
    /\ filters = {PublicKey(sk)}

(***************************************************************************)
(* C19. Files belong to deposited notes: a file is written only for a note *)
(* of a batch whose deposit returned Ok, so every file in the note store   *)
(* is the file of a note the wallet holds; the step in which the deposit   *)
(* fails writes nothing and no file of that notification has been written; *)
(* the writes of an iteration go through the batch in order, one file per  *)
(* step, so that when a write fails the whole batch is in the wallet, the  *)
(* notes before the failing one have their files, and the iteration has    *)
(* written no file of a later note. (A note that occurs in the batch a     *)
(* second time is written a second time to the same path; if that write    *)
(* fails, the file of its first occurrence is the file the failure may     *)
(* have cut short.)                                                        *)
(***************************************************************************)
C19_FilesOfHeldNotes ==
    /\ log_cash_notes = {} => files = <<>>
    /\ \A path \in log_cash_notes :
           /\ DOMAIN files \subseteq {CashNoteFilePath(path, CashNote(id)) : id \in wallet.ids}
           /\ (InBatch /\ pc = "verify") => cn_idx = 1
           /\ (InBatch /\ pc = "notes") =>
                  /\ deposit_calls = <<[notes |-> cash_notes, ok |-> TRUE]>>
                  /\ NoteIds(cash_notes) \subseteq wallet.ids
                  /\ \A i \in 1..(cn_idx - 1) : FileWritten(path, cash_notes[i])

C19_WriteStep ==
    files' # files =>
        /\ pc = "notes" /\ cn_idx <= Len(cash_notes)
        /\ deposit_calls = <<[notes |-> cash_notes, ok |-> TRUE]>>
        /\ cash_notes[cn_idx].unique_pubkey \in wallet.ids
        /\ \A path \in log_cash_notes :
               /\ DOMAIN files' = DOMAIN files \cup {CashNoteFilePath(path, cash_notes[cn_idx])}
               /\ \A f \in DOMAIN files :
                      f # CashNoteFilePath(path, cash_notes[cn_idx]) => files'[f] = files[f]
        /\ (cn_idx' = cn_idx + 1 /\ cash_notes' = cash_notes) \/ failed_call' = "write"

C19_DepositFailStep ==
    (failed_call = "none" /\ failed_call' = "deposit") =>
        /\ pc = "verify" /\ cn_idx = 1
        /\ files' = files /\ dirs' = dirs /\ persisted' = persisted
        /\ pc' = "done"

\* The complete file of a CashNote is among the files `fs`.
FileWrittenIn(fs, path, cn) ==
    /\ CashNoteFilePath(path, cn) \in DOMAIN fs
    /\ fs[CashNoteFilePath(path, cn)] = ToHex(cn)

C19_WriteFailStep ==
    (failed_call = "none" /\ failed_call' = "write") =>
        /\ deposit_calls = <<[notes |-> cash_notes, ok |-> TRUE]>>
        /\ NoteIds(cash_notes) \subseteq wallet.ids
        /\ wallet' = wallet
        /\ \A path \in log_cash_notes :
               /\ \A i \in 1..(cn_idx - 1) :
                      cash_notes[i] # cash_notes[cn_idx]
                          => FileWrittenIn(files', path, cash_notes[i])
               /\ \A i \in cn_idx..Len(cash_notes) :
                      FileWrittenIn(files', path, cash_notes[i])
                          => FileWrittenIn(files, path, cash_notes[i])
        /\ pc' = "done" /\ ret' = "ErrWrite"

C19_FilesOfDepositedNotes ==
    /\ []C19_FilesOfHeldNotes
    /\ [][C19_WriteStep /\ C19_DepositFailStep /\ C19_WriteFailStep]_vars

\* The first session item held n2 and n3; both were deposited, the file of n2 was
\* written and the write of the file of n3 failed.
C19_Witness ==
    /\ failed_call = "write"
    /\ consumed = 1
    /\ wallet.ids = {"n2", "n3"}
    /\ persisted = {"n2"}
    /\ \A path \in log_cash_notes :
           /\ FileWritten(path, CashNote("n2"))
           /\ ~FileWritten(path, CashNote("n3"))

(***************************************************************************)
(* C20. The wallet is changed only by the deposit: after it was loaded,    *)
(* the only step that changes the wallet is the call of wallet.deposit     *)
(* that follows the last transfer of a notification; the steps that verify *)
(* a transfer and those that print and write the notes leave it as it is;  *)
(* no step lowers the balance or removes a held note, so the balance       *)
(* reported after a batch is at least every balance reported before.       *)
(***************************************************************************)
C20_WalletStep ==
    wallet' # wallet =>
        \/ pc = "wallet_load" /\ wallet = NoWallet
        \/ /\ pc = "verify" /\ t_idx = Len(transfers) + 1
           /\ DepositReturnedOk \/ (failed_call = "none" /\ failed_call' = "deposit")

C20_FrameStep ==
    ((pc = "verify" /\ t_idx <= Len(transfers)) \/ pc = "notes" \/ pc = "decode" \/ pc = "next")
        => wallet' = wallet

C20_MonotoneStep ==
    /\ Balance(wallet') >= Balance(wallet)
    /\ wallet.ids \subseteq wallet'.ids

C20_OnlyDepositMutates == [][C20_WalletStep /\ C20_FrameStep /\ C20_MonotoneStep]_vars

\* The second notification, holding n1, has been deposited and printed on top of
\* a first one that held n2 and n3: the balance went from 7 to 12.
C20_Witness ==
    /\ consumed = 2
    /\ pc = "notes"
    /\ cn_idx > Len(cash_notes)
    /\ cash_notes = <<CashNote("n1")>>
    /\ wallet.ids = {"n1", "n2", "n3"}
    /\ Balance(wallet) = 12

====
